---- MODULE Spec2Model ----
(***************************************************************************)
(* Model of buildbot_slack/reporter.py: the SlackStatusPush reporter.      *)
(* One dispatch is one call of buildStarted or buildFinished; a dispatch   *)
(* is a Twisted inlineCallbacks coroutine, so it runs without interruption *)
(* between two yields and other dispatches may run while it is suspended.  *)
(***************************************************************************)
EXTENDS Integers, Sequences, FiniteSets, TLC

\* ---------------------------------------------------------------- bounds
MaxEvents == 2        \* events delivered in a behaviour of Spec
MaxFilterEvents == 2  \* events delivered in a behaviour of SpecFilter
MaxRevs == 2          \* sourcestamps of a build
MaxSeqEvents == 3     \* events delivered in a behaviour of SpecSeq

\* ------------------------------------------------- buildbot result codes
None == -1
SUCCESS == 0
WARNINGS == 1
FAILURE == 2
SKIPPED == 3
EXCEPTION == 4
RETRY == 5
CANCELLED == 6
UNKNOWN == CANCELLED + 1   \* a value statusToString does not know

AllResults == {None, SUCCESS, WARNINGS, FAILURE, SKIPPED, EXCEPTION, RETRY, CANCELLED, UNKNOWN}

Builders == {"b1", "b2"}
NoChannel == "<no channel>"
Channels == {NoChannel, "#builds"}
UserLists == {<< >>, <<"alice">>, <<"alice", "bob">>}
PostOutcomes == {"200", "non200", "exception"}

VARIABLES
    reportBuildStated,   \* self.reportBuildStated
    reportOnlyFailures,  \* self.reportOnlyFailures
    reportFixedBuild,    \* self.reportFixedBuild
    channel,             \* self.channel
    prevBuildResults,    \* self.prevBuildResults: builder name -> results
    builds               \* the dispatches, in the order the events were delivered

vars == <<reportBuildStated, reportOnlyFailures, reportFixedBuild, channel,
          prevBuildResults, builds>>

config == <<reportBuildStated, reportOnlyFailures, reportFixedBuild, channel>>

\* ------------------------------------------------------- pure functions
isSuccess(status) == status # None /\ status = SUCCESS

isFailure_onlyFailure(status) == status # None /\ status = FAILURE

isFailure(status) == status # None /\ (status = FAILURE \/ status = EXCEPTION)

\* buildbot.process.results.statusToString
statusToString(status) ==
    IF status = None THEN "not finished"
    ELSE IF status < 0 \/ status > CANCELLED THEN "Invalid status"
    ELSE CASE status = SUCCESS -> "success"
           [] status = WARNINGS -> "warnings"
           [] status = FAILURE -> "failure"
           [] status = SKIPPED -> "skipped"
           [] status = EXCEPTION -> "exception"
           [] status = RETRY -> "retry"
           [] status = CANCELLED -> "cancelled"

STATUS_EMOJIS(name) ==
    CASE name = "success" -> ":sunglassses:"
      [] name = "warnings" -> ":meow_wow:"
      [] name = "failure" -> ":skull:"
      [] name = "skipped" -> ":slam:"
      [] name = "exception" -> ":skull:"
      [] name = "retry" -> ":facepalm:"
      [] name = "cancelled" -> ":slam:"
      [] OTHER -> ":facepalm:"

\* the entry of "exception" missing
STATUS_COLORS_noException(name) ==
    CASE name = "success" -> "#36a64f"
      [] name = "warnings" -> "#fc8c03"
      [] name = "failure" -> "#fc0303"
      [] name = "skipped" -> "#fc8c03"
      [] name = "retry" -> "#fc8c03"
      [] name = "cancelled" -> "#fc8c03"
      [] OTHER -> ""

STATUS_COLORS(name) ==
    CASE name = "success" -> "#36a64f"
      [] name = "warnings" -> "#fc8c03"
      [] name = "failure" -> "#fc0303"
      [] name = "skipped" -> "#fc8c03"
      [] name = "exception" -> "#fc0303"
      [] name = "retry" -> "#fc8c03"
      [] name = "cancelled" -> "#fc8c03"
      [] OTHER -> ""

\* ------------------------------------------------------- lineage state
getPrevBuildResult(prev, name) ==
    IF name \in DOMAIN prev THEN prev[name] ELSE None

\* += in the place of =
storePrevBuildResult_accumulate(prev, name, res) ==
    [n \in DOMAIN prev \cup {name} |->
        IF n = name THEN (IF name \in DOMAIN prev THEN prev[name] + res ELSE res)
        ELSE prev[n]]

\* the dictionary replaced by one that holds the new entry only
storePrevBuildResult_replace(prev, name, res) ==
    [n \in {name} |-> res]

storePrevBuildResult(prev, name, res) ==
    [n \in DOMAIN prev \cup {name} |-> IF n = name THEN res ELSE prev[n]]

\* ------------------------------------------------------------ rendering
url(buildid) == <<"http://master/#builds/", buildid>>

RECURSIVE join(_)
\* ", ".join(responsible_users)
join(users) ==
    IF Len(users) = 0 THEN << >>
    ELSE IF Len(users) = 1 THEN <<users[1]>>
    ELSE <<users[1], ", ">> \o join(Tail(users))

section(text) == [type |-> "section", text |-> [type |-> "mrkdwn", text |-> text]]

title(buildid, res) ==
    <<"<", url(buildid), "|Build #", buildid, "> - *", statusToString(res), "*">>

\* one pass of the loop body of getAttachments, lines 131-165
attachment(buildid, res, looked, users) ==
    [color |-> STATUS_COLORS(statusToString(res)),
     blocks |-> IF looked /\ Len(users) > 0
                THEN <<section(title(buildid, res)),
                       section(<<"*Commiters:*\n">> \o join(users))>>
                ELSE <<section(title(buildid, res))>>]

getExtraParams(d, key) == << >>

\* postData.update(extra_params)
update(postData, extra) ==
    [k \in DOMAIN postData \cup DOMAIN extra |->
        IF k \in DOMAIN extra THEN extra[k] ELSE postData[k]]

postDataOf_attachAlways(d, buildid, ch) ==
    LET text == IF d.stage = "new"
                THEN ("text" :> <<"Buildbot started build <", url(buildid), "|", d.builder, ">">>)
                     @@ ("attachments" :> d.atts)
                ELSE ("text" :> <<"Buildbot finished build ", d.builder>>)
                     @@ ("attachments" :> d.atts)
        chan == IF ch # NoChannel THEN ("channel" :> ch) ELSE << >>
        icon == ("icon_emoji" :> STATUS_EMOJIS(statusToString(d.results)))
    IN text @@ chan @@ icon

\* lines 173-188 of getBuildDetailsAndSendMessage
postDataOf(d, buildid, ch) ==
    LET text == IF d.stage = "new"
                THEN ("text" :> <<"Buildbot started build <", url(buildid), "|", d.builder, ">">>)
                ELSE IF d.stage = "finished"
                THEN ("text" :> <<"Buildbot finished build ", d.builder>>)
                     @@ ("attachments" :> d.atts)
                ELSE << >>
        chan == IF ch # NoChannel THEN ("channel" :> ch) ELSE << >>
        icon == ("icon_emoji" :> STATUS_EMOJIS(statusToString(d.results)))
    IN update(text @@ chan @@ icon, getExtraParams(d, d.stage))

\* ------------------------------------------------- the steps of send
\* the test of line 227 lost
startPosting_noGuard(d, postData) ==
    IF d.nrevs = 0 THEN [d EXCEPT !.pc = "done", !.postData = postData]
    ELSE [d EXCEPT !.pc = "post", !.postData = postData, !.i = 1, !.posts = 1]

\* send, lines 227-243: what follows the rendering, up to the first POST
startPosting(d, postData) ==
    IF DOMAIN postData = {} THEN [d EXCEPT !.pc = "done", !.postData = postData]
    ELSE IF d.nrevs = 0 THEN [d EXCEPT !.pc = "done", !.postData = postData]
    ELSE [d EXCEPT !.pc = "post", !.postData = postData, !.i = 1, !.posts = 1]

\* one attachment for the build instead of one for each sourcestamp
continueAttachments_single(d, buildid, ch) ==
    IF Len(d.atts) < d.nrevs
    THEN IF d.results # SUCCESS
         THEN IF Len(d.atts) = 0
              THEN [d EXCEPT !.pc = "users", !.userLookups = @ + 1]
              ELSE startPosting(d, postDataOf(d, buildid, ch))
         ELSE LET all == <<attachment(buildid, d.results, FALSE, << >>)>>
                  dd == [d EXCEPT !.atts = all]
              IN startPosting(dd, postDataOf(dd, buildid, ch))
    ELSE startPosting(d, postDataOf(d, buildid, ch))

\* getAttachments from the top of the loop, lines 130-147, then the rest
continueAttachments(d, buildid, ch) ==
    IF Len(d.atts) < d.nrevs
    THEN IF d.results # SUCCESS
         THEN [d EXCEPT !.pc = "users", !.userLookups = @ + 1]
         ELSE LET all == [j \in 1..d.nrevs |-> attachment(buildid, d.results, FALSE, << >>)]
                  dd == [d EXCEPT !.atts = all]
              IN startPosting(dd, postDataOf(dd, buildid, ch))
    ELSE startPosting(d, postDataOf(d, buildid, ch))

\* send called: it runs to the yield of line 170
send(d) == [d EXCEPT !.pc = "send_details"]

\* nrevs is len(build["buildset"]["sourcestamps"]), which the dispatch learns
\* from getDetailsForBuild at line 170
newBuild(stage, b, res) ==
    [stage |-> stage, builder |-> b, results |-> res, nrevs |-> 0,
     pc |-> "new", doSend |-> FALSE, didRead |-> FALSE, status |-> None,
     stored |-> FALSE, atts |-> << >>, userLookups |-> 0, postData |-> << >>,
     i |-> 0, posts |-> 0, errors |-> 0, err |-> "none"]

\* --------------------------------------------------------------- actions
InitOver(chs) ==
    /\ reportBuildStated \in BOOLEAN
    /\ reportOnlyFailures \in BOOLEAN
    /\ reportFixedBuild \in BOOLEAN
    /\ channel \in chs
    /\ prevBuildResults = << >>
    /\ builds = << >>

Init == InitOver({"#builds"})

buildStarted_unlessOnlyFailures(b, cap) ==
    /\ Len(builds) < cap
    /\ LET d == newBuild("new", b, None)
       IN builds' = Append(builds,
              IF reportBuildStated /\ ~reportOnlyFailures
              THEN send([d EXCEPT !.doSend = TRUE])
              ELSE [d EXCEPT !.pc = "done"])
    /\ UNCHANGED <<config, prevBuildResults>>

\* the orchestrator delivers ('builds', id, 'new')
buildStarted(b, cap) ==
    /\ Len(builds) < cap
    /\ LET d == newBuild("new", b, None)
       IN builds' = Append(builds,
              IF reportBuildStated
              THEN send([d EXCEPT !.doSend = TRUE])
              ELSE [d EXCEPT !.pc = "done"])
    /\ UNCHANGED <<config, prevBuildResults>>

\* the orchestrator delivers ('builds', id, 'finished'): runs to line 199
buildFinished(b, res, cap) ==
    /\ Len(builds) < cap
    /\ builds' = Append(builds, [newBuild("finished", b, res) EXCEPT !.pc = "bf_details"])
    /\ UNCHANGED <<config, prevBuildResults>>

\* the arguments of the fix test exchanged
decide_swapped(d, prev) ==
    IF reportOnlyFailures
    THEN IF isFailure(d.results) THEN [d EXCEPT !.doSend = TRUE]
         ELSE IF reportFixedBuild
         THEN LET status == getPrevBuildResult(prev, d.builder)
              IN [d EXCEPT !.didRead = TRUE, !.status = status,
                           !.doSend = isSuccess(status) /\ isFailure(d.results)]
         ELSE d
    ELSE [d EXCEPT !.doSend = TRUE]

\* the else branch of line 211 lost
decide_noElse(d, prev) ==
    IF reportOnlyFailures
    THEN IF isFailure(d.results) THEN [d EXCEPT !.doSend = TRUE]
         ELSE IF reportFixedBuild
         THEN LET status == getPrevBuildResult(prev, d.builder)
              IN [d EXCEPT !.didRead = TRUE, !.status = status,
                           !.doSend = isSuccess(d.results) /\ isFailure(status)]
         ELSE d
    ELSE [d EXCEPT !.doSend = isFailure(d.results)]

\* the previous result read after the result of this build is stored
decide_readAfterStore(d, prev) ==
    IF reportOnlyFailures
    THEN IF isFailure(d.results) THEN [d EXCEPT !.doSend = TRUE]
         ELSE IF reportFixedBuild
         THEN LET status == getPrevBuildResult(
                                storePrevBuildResult(prev, d.builder, d.results), d.builder)
              IN [d EXCEPT !.didRead = TRUE, !.status = status,
                           !.doSend = isSuccess(d.results) /\ isFailure(status)]
         ELSE d
    ELSE [d EXCEPT !.doSend = TRUE]

\* lines 201-212
decide(d, prev) ==
    IF reportOnlyFailures
    THEN IF isFailure(d.results) THEN [d EXCEPT !.doSend = TRUE]
         ELSE IF reportFixedBuild
         THEN LET status == getPrevBuildResult(prev, d.builder)
              IN [d EXCEPT !.didRead = TRUE, !.status = status,
                           !.doSend = isSuccess(d.results) /\ isFailure(status)]
         ELSE d
    ELSE [d EXCEPT !.doSend = TRUE]

\* the result stored only for the builds that are reported
record_onlySent(d, prev) ==
    IF reportFixedBuild /\ d.doSend
    THEN storePrevBuildResult(prev, d.builder, d.results) ELSE prev

\* the result stored whatever reportFixedBuild is
record_always(d, prev) ==
    storePrevBuildResult(prev, d.builder, d.results)

\* lines 214-215
record(d, prev) ==
    IF reportFixedBuild THEN storePrevBuildResult(prev, d.builder, d.results) ELSE prev

\* getDetailsForBuild of line 199 returns: lines 201-219 run to the next yield
buildFinishedResume(k, ok) ==
    /\ k \in DOMAIN builds
    /\ builds[k].pc = "bf_details"
    /\ IF ~ok
       THEN /\ builds' = [builds EXCEPT ![k].pc = "error", ![k].err = "bf_details"]
            /\ UNCHANGED prevBuildResults
       ELSE LET d == decide(builds[k], prevBuildResults)
                dd == [d EXCEPT !.stored = reportFixedBuild]
            IN /\ prevBuildResults' = record(d, prevBuildResults)
               /\ builds' = [builds EXCEPT ![k] =
                      IF dd.doSend THEN send(dd) ELSE [dd EXCEPT !.pc = "done"]]
    /\ UNCHANGED config

\* getDetailsForBuild of line 170 returns: getAttachments starts
getBuildDetailsResume(k, ok, n) ==
    /\ k \in DOMAIN builds
    /\ builds[k].pc = "send_details"
    /\ builds' = [builds EXCEPT ![k] =
           IF ok THEN continueAttachments([@ EXCEPT !.nrevs = n], k, channel)
           ELSE [@ EXCEPT !.pc = "error", !.err = "send_details"]]
    /\ UNCHANGED <<config, prevBuildResults>>

\* getResponsibleUsersForBuild of line 147 returns
getAttachmentsResume(k, ok, users) ==
    /\ k \in DOMAIN builds
    /\ builds[k].pc = "users"
    /\ builds' = [builds EXCEPT ![k] =
           IF ok
           THEN continueAttachments(
                    [@ EXCEPT !.atts = Append(@, attachment(k, builds[k].results, TRUE, users))],
                    k, channel)
           ELSE [@ EXCEPT !.pc = "error", !.err = "users"]]
    /\ UNCHANGED <<config, prevBuildResults>>

\* a failed POST is tried once more
sendResume_retry(k, outcome) ==
    /\ k \in DOMAIN builds
    /\ builds[k].pc = "post"
    /\ LET d == builds[k]
           logged == [d EXCEPT !.errors = IF outcome = "200" THEN @ ELSE @ + 1]
       IN builds' = [builds EXCEPT ![k] =
              IF outcome # "200" /\ d.posts <= d.nrevs
              THEN [logged EXCEPT !.posts = @ + 1]
              ELSE IF d.i < d.nrevs
              THEN [logged EXCEPT !.i = @ + 1, !.posts = @ + 1]
              ELSE [logged EXCEPT !.pc = "done"]]
    /\ UNCHANGED <<config, prevBuildResults>>

\* the exception of a POST is not caught
sendResume_raise(k, outcome) ==
    /\ k \in DOMAIN builds
    /\ builds[k].pc = "post"
    /\ LET d == builds[k]
           logged == [d EXCEPT !.errors = IF outcome = "200" THEN @ ELSE @ + 1]
       IN builds' = [builds EXCEPT ![k] =
              IF outcome = "exception"
              THEN [logged EXCEPT !.pc = "error", !.err = "post"]
              ELSE IF d.i < d.nrevs
              THEN [logged EXCEPT !.i = @ + 1, !.posts = @ + 1]
              ELSE [logged EXCEPT !.pc = "done"]]
    /\ UNCHANGED <<config, prevBuildResults>>

\* the POST of line 241/243 returns or raises; a response that is not 200 is
\* logged (its body read at line 245), an exception is logged at line 252;
\* then the loop goes on to the next sourcestamp
sendResume(k, outcome) ==
    /\ k \in DOMAIN builds
    /\ builds[k].pc = "post"
    /\ LET d == builds[k]
           logged == [d EXCEPT !.errors = IF outcome = "200" THEN @ ELSE @ + 1]
       IN builds' = [builds EXCEPT ![k] =
              IF d.i < d.nrevs
              THEN [logged EXCEPT !.i = @ + 1, !.posts = @ + 1]
              ELSE [logged EXCEPT !.pc = "done"]]
    /\ UNCHANGED <<config, prevBuildResults>>

SomeResults == {None, SUCCESS, WARNINGS, FAILURE, EXCEPTION}

Next ==
    \/ \E b \in Builders : buildStarted(b, MaxEvents)
    \/ \E b \in Builders, res \in SomeResults : buildFinished(b, res, MaxEvents)
    \/ \E k \in 1..MaxEvents, ok \in BOOLEAN : buildFinishedResume(k, ok)
    \/ \E k \in 1..MaxEvents, ok \in BOOLEAN, n \in 0..MaxRevs : getBuildDetailsResume(k, ok, n)
    \/ \E k \in 1..MaxEvents, ok \in BOOLEAN : getAttachmentsResume(k, ok, <<"alice">>)
    \/ \E k \in 1..MaxEvents, outcome \in PostOutcomes : sendResume(k, outcome)

Spec == Init /\ [][Next]_vars

\* finished events only, with every result value and both builders, of builds
\* without sourcestamps; reportBuildStated, which they do not read, has its
\* default
InitFilter == Init /\ reportBuildStated = TRUE

NextFilter ==
    \/ \E b \in Builders, res \in AllResults : buildFinished(b, res, MaxFilterEvents)
    \/ \E k \in 1..MaxFilterEvents, ok \in BOOLEAN : buildFinishedResume(k, ok)
    \/ \E k \in 1..MaxFilterEvents, ok \in BOOLEAN : getBuildDetailsResume(k, ok, 0)

SpecFilter == InitFilter /\ [][NextFilter]_vars

\* one event, every result value, every list of users, with and without channel
NextRender ==
    \/ buildStarted("b1", 1)
    \/ \E res \in AllResults : buildFinished("b1", res, 1)
    \/ \E ok \in BOOLEAN : buildFinishedResume(1, ok)
    \/ \E ok \in BOOLEAN, n \in 0..MaxRevs : getBuildDetailsResume(1, ok, n)
    \/ \E ok \in BOOLEAN, users \in UserLists : getAttachmentsResume(1, ok, users)
    \/ \E outcome \in PostOutcomes : sendResume(1, outcome)

SpecRender == InitOver(Channels) /\ [][NextRender]_vars

\* send resumes at line 226 with the payload of a renderer that is not the
\* one of lines 168-188: getBuildDetailsAndSendMessage is a method a subclass
\* may replace, and send tests what it returns
sendRendered(k, n, postData) ==
    /\ k \in DOMAIN builds
    /\ builds[k].pc = "send_details"
    /\ builds' = [builds EXCEPT ![k] = startPosting([@ EXCEPT !.nrevs = n], postData)]
    /\ UNCHANGED <<config, prevBuildResults>>

Payloads == {<< >>, ("text" :> "custom")}

\* one event, the payload drawn from Payloads
NextOverride ==
    \/ buildStarted("b1", 1)
    \/ \E res \in SomeResults : buildFinished("b1", res, 1)
    \/ \E ok \in BOOLEAN : buildFinishedResume(1, ok)
    \/ \E n \in 0..MaxRevs, postData \in Payloads : sendRendered(1, n, postData)
    \/ \E outcome \in PostOutcomes : sendResume(1, outcome)

SpecOverride == Init /\ [][NextOverride]_vars

\* no dispatch is suspended
idle == \A k \in DOMAIN builds : builds[k].pc \in {"done", "error"}

\* finished events handled one at a time: an event is delivered when the
\* dispatches of the events before it have ended; builds without sourcestamps
NextSeq ==
    \/ \E b \in Builders, res \in AllResults :
          idle /\ buildFinished(b, res, MaxSeqEvents)
    \/ \E k \in 1..MaxSeqEvents, ok \in BOOLEAN : buildFinishedResume(k, ok)
    \/ \E k \in 1..MaxSeqEvents, ok \in BOOLEAN : getBuildDetailsResume(k, ok, 0)

SpecSeq == InitFilter /\ [][NextSeq]_vars

\* ---------------------------------------------------------------- claims
\* build k is a finished build whose lines 201-215 have run
decided(k) ==
    /\ builds[k].stage = "finished"
    /\ builds[k].pc # "bf_details"
    /\ builds[k].err # "bf_details"

\* build k runs lines 201-215 in this step
decides(k) ==
    /\ builds[k].pc = "bf_details"
    /\ builds'[k].pc # "bf_details"
    /\ builds'[k].err # "bf_details"

recorded(b) == b \in DOMAIN prevBuildResults

\* C1: with reportOnlyFailures and reportFixedBuild, a SUCCESS build is
\* reported when the result recorded for its builder is FAILURE or EXCEPTION
\* and is not reported when nothing is recorded for its builder.
C1_FixIsReported ==
    [][\A k \in DOMAIN builds :
        (decides(k) /\ reportOnlyFailures /\ reportFixedBuild /\ builds[k].results = SUCCESS)
        => LET b == builds[k].builder
           IN /\ (recorded(b) /\ prevBuildResults[b] \in {FAILURE, EXCEPTION})
                    => (builds'[k].doSend /\ builds'[k].pc = "send_details")
              /\ ~recorded(b) => (~builds'[k].doSend /\ builds'[k].pc = "done")]_vars

C1_Witness ==
    \E j, k \in DOMAIN builds :
        /\ j # k /\ builds[j].builder = builds[k].builder
        /\ reportOnlyFailures /\ reportFixedBuild
        /\ builds[j].results = EXCEPTION /\ builds[j].stored
        /\ builds[k].results = SUCCESS /\ decided(k) /\ builds[k].status = EXCEPTION
        /\ builds[k].doSend

\* C2: the read/record pairs of the finished builds of one builder are made in
\* the order the events were delivered: when a build has recorded its result,
\* no build of the same builder delivered before it is still waiting to
\* read and record; and once none is waiting, the stored result is the one
\* of the last delivered build that recorded.
C2_DeliveryOrder ==
    \A j, k \in DOMAIN builds :
        (j < k /\ builds[j].builder = builds[k].builder
            /\ builds[j].stage = "finished" /\ builds[k].stored)
        => /\ builds[j].pc # "bf_details"
           /\ (\A m \in DOMAIN builds :
                  builds[m].builder = builds[k].builder
                  => builds[m].pc # "bf_details" /\ (m > k => ~builds[m].stored))
              => prevBuildResults[builds[k].builder] = builds[k].results

\* C3: without reportOnlyFailures every finished build is reported.
C3_AllReported ==
    ~reportOnlyFailures =>
        \A k \in DOMAIN builds :
            decided(k) =>
                /\ builds[k].doSend
                /\ builds[k].pc = "done" => DOMAIN builds[k].postData # {}

C3_Witness ==
    /\ ~reportOnlyFailures /\ reportFixedBuild
    /\ \E k \in DOMAIN builds :
          /\ decided(k) /\ builds[k].results = UNKNOWN /\ builds[k].doSend
          /\ recorded(builds[k].builder)

\* C4: with reportOnlyFailures and without reportFixedBuild a finished build
\* is reported if and only if its result is FAILURE or EXCEPTION.
C4_OnlyFailures ==
    (reportOnlyFailures /\ ~reportFixedBuild) =>
        \A k \in DOMAIN builds :
            decided(k) =>
                /\ builds[k].doSend <=> builds[k].results \in {FAILURE, EXCEPTION}
                /\ ~builds[k].doSend => (builds[k].pc = "done" /\ builds[k].posts = 0)
                /\ (builds[k].doSend /\ builds[k].pc = "done") => DOMAIN builds[k].postData # {}

C4_Witness ==
    /\ reportOnlyFailures /\ ~reportFixedBuild
    /\ \E j, k \in DOMAIN builds :
          /\ j < k /\ builds[j].builder = builds[k].builder
          /\ decided(j) /\ builds[j].results = EXCEPTION /\ builds[j].doSend
          /\ decided(k) /\ builds[k].results = SUCCESS /\ ~builds[k].doSend

C6_ReadBeforeRecord ==
    [][\A k \in DOMAIN builds :
        (decides(k) /\ builds'[k].didRead)
        => LET b == builds[k].builder
           IN /\ ~builds[k].stored
              /\ builds'[k].status = (IF recorded(b) THEN prevBuildResults[b] ELSE None)
              /\ prevBuildResults' =
                    [n \in DOMAIN prevBuildResults \cup {b} |->
                        IF n = b THEN builds[k].results ELSE prevBuildResults[n]]]_vars

C6_Witness ==
    \E j, k \in DOMAIN builds :
        /\ j # k /\ builds[j].builder = builds[k].builder
        /\ builds[j].stored /\ builds[j].results = FAILURE
        /\ builds[k].didRead /\ builds[k].status = FAILURE
        /\ builds[k].results = WARNINGS /\ builds[k].stored
        /\ prevBuildResults[builds[k].builder] = WARNINGS

\* C7: a dispatch that sends makes one POST per sourcestamp whatever the
\* outcome of each POST: the number of POSTs made is the index of the
\* sourcestamp being posted, and it is the number of sourcestamps at the end.
C7_OnePostPerRevision ==
    \A k \in DOMAIN builds :
        /\ builds[k].posts <= builds[k].nrevs
        /\ builds[k].pc = "post" => (builds[k].posts = builds[k].i /\ builds[k].i >= 1)
        /\ (builds[k].pc = "done" /\ builds[k].doSend) => builds[k].posts = builds[k].nrevs

\* a dispatch has made its two POSTs, the first failed with a status that is
\* not 200 or an exception, the second too
C7_Witness ==
    \E k \in DOMAIN builds :
        /\ builds[k].pc = "done" /\ builds[k].doSend
        /\ builds[k].nrevs = 2 /\ builds[k].posts = 2 /\ builds[k].errors = 2

\* C8: a failed POST does not end the dispatch in error and changes nothing
\* but the dispatch itself: the step that takes the outcome of a POST leaves
\* the dispatch posting or done, and the stored results and the other
\* dispatches as they were.
C8_FailureIsSwallowed ==
    [][\A k \in DOMAIN builds :
        (builds[k].pc = "post" /\ builds'[k] # builds[k])
        => /\ builds'[k].pc \in {"post", "done"}
           /\ builds'[k].err = "none"
           /\ prevBuildResults' = prevBuildResults
           /\ \A j \in DOMAIN builds : j # k => builds'[j] = builds[j]]_vars

C8_Witness ==
    /\ Len(builds) = 2
    /\ builds[1].errors >= 1 /\ builds[1].pc = "done" /\ builds[1].err = "none"
    /\ builds[2].stage = "finished" /\ builds[2].pc = "done" /\ builds[2].doSend
    /\ builds[2].posts = 1 /\ builds[2].errors = 0
    /\ recorded(builds[2].builder)

startedText(k) == <<"Buildbot started build <", url(k), "|", builds[k].builder, ">">>

rendered(k) ==
    /\ builds[k].stage = "finished"
    /\ builds[k].doSend
    /\ builds[k].pc \in {"post", "done"}

\* C11: the payload of a finished build has one attachment for each
\* sourcestamp of the build.
C11_AttachmentPerRevision ==
    \A k \in DOMAIN builds :
        rendered(k) =>
            /\ "attachments" \in DOMAIN builds[k].postData
            /\ Len(builds[k].postData["attachments"]) = builds[k].nrevs

C11_Witness ==
    \E k \in DOMAIN builds :
        /\ rendered(k) /\ builds[k].pc = "done"
        /\ builds[k].results = FAILURE /\ builds[k].nrevs = 2
        /\ Len(builds[k].postData["attachments"]) = 2

\* the color of each result, as the table of lines 25-33 gives it for the
\* name of the result
colorOfResult(res) ==
    CASE res = SUCCESS -> "#36a64f"
      [] res \in {WARNINGS, SKIPPED, RETRY, CANCELLED} -> "#fc8c03"
      [] res \in {FAILURE, EXCEPTION} -> "#fc0303"
      [] OTHER -> ""

\* the emoji of each result, as the table of lines 16-24 gives it
emojiOfResult(res) ==
    CASE res = SUCCESS -> ":sunglassses:"
      [] res = WARNINGS -> ":meow_wow:"
      [] res \in {FAILURE, EXCEPTION} -> ":skull:"
      [] res \in {SKIPPED, CANCELLED} -> ":slam:"
      [] res = RETRY -> ":facepalm:"
      [] OTHER -> ":facepalm:"

\* C12: every attachment of a finished build has the color of the result of
\* the build, the empty color for an unknown result, and the payload has the
\* emoji of the result, the fallback emoji for an unknown or absent result.
C12_ColorAndEmoji ==
    \A k \in DOMAIN builds :
        rendered(k) =>
            /\ \A a \in 1..Len(builds[k].postData["attachments"]) :
                  builds[k].postData["attachments"][a].color = colorOfResult(builds[k].results)
            /\ builds[k].postData["icon_emoji"] = emojiOfResult(builds[k].results)

C12_Witness ==
    \E k \in DOMAIN builds :
        /\ rendered(k) /\ builds[k].results = EXCEPTION /\ builds[k].nrevs = 2
        /\ Len(builds[k].postData["attachments"]) = 2
        /\ builds[k].postData["attachments"][2].color = "#fc0303"
        /\ builds[k].postData["icon_emoji"] = ":skull:"

\* C13: with an empty payload send makes no POST, whatever the number of
\* sourcestamps, and ends normally.
C13_NothingToSend ==
    \A k \in DOMAIN builds :
        DOMAIN builds[k].postData = {} =>
            /\ builds[k].posts = 0
            /\ builds[k].pc # "post"
            /\ builds[k].pc = "error" => builds[k].err = "bf_details"

C13_Witness ==
    \E k \in DOMAIN builds :
        /\ builds[k].doSend /\ builds[k].pc = "done" /\ builds[k].err = "none"
        /\ DOMAIN builds[k].postData = {}
        /\ builds[k].nrevs = 2 /\ builds[k].posts = 0

\* C15: to record for a builder the result that is already stored for it
\* changes nothing in the stored results.
C15_RecordIdempotent ==
    [][\A k \in DOMAIN builds :
        (decides(k) /\ reportFixedBuild /\ recorded(builds[k].builder)
            /\ prevBuildResults[builds[k].builder] = builds[k].results)
        => prevBuildResults' = prevBuildResults]_vars

C15_Witness ==
    \E j, k \in DOMAIN builds :
        /\ j # k /\ builds[j].builder = builds[k].builder
        /\ builds[j].results = FAILURE /\ builds[k].results = FAILURE
        /\ builds[j].stored /\ builds[k].stored
        /\ prevBuildResults[builds[k].builder] = FAILURE

\* C16: no dispatch ends with an exception: a lookup that fails leaves the
\* dispatch done, without a notification.
C16_NoErrorPropagates ==
    \A k \in DOMAIN builds : builds[k].pc # "error"

\* C17: the responsible users are looked up for finished builds whose result
\* is not SUCCESS only.
C17_UsersOnlyForNonSuccess ==
    \A k \in DOMAIN builds :
        builds[k].userLookups > 0 =>
            /\ builds[k].stage = "finished"
            /\ builds[k].results # SUCCESS

\* some builder's stored result is not what it was
changed(b) ==
    \/ (b \in DOMAIN prevBuildResults') # (b \in DOMAIN prevBuildResults)
    \/ /\ b \in DOMAIN prevBuildResults /\ b \in DOMAIN prevBuildResults'
       /\ prevBuildResults'[b] # prevBuildResults[b]

\* C18: the stored result of a builder changes only in the step that handles
\* a finished build of that builder.
C18_OtherBuildersUntouched ==
    [][\A b \in Builders :
        changed(b) => \E k \in DOMAIN builds : decides(k) /\ builds[k].builder = b]_vars

C18_Witness ==
    \E j, k \in DOMAIN builds :
        /\ builds[j].builder = "b1" /\ builds[k].builder = "b2"
        /\ builds[j].stored /\ builds[k].stored
        /\ builds[j].results = FAILURE /\ builds[k].results = SUCCESS
        /\ builds[j].pc = "done" /\ builds[j].errors >= 1 /\ builds[k].pc = "done"
        /\ prevBuildResults["b1"] = FAILURE /\ prevBuildResults["b2"] = SUCCESS

\* C19: the stored results change only in the step that handles a finished
\* build, with reportFixedBuild; without it they stay empty; no entry is
\* ever removed.
C19_OnlyFinishedRecords ==
    [][/\ DOMAIN prevBuildResults \subseteq DOMAIN prevBuildResults'
       /\ ~reportFixedBuild => DOMAIN prevBuildResults' = {}
       /\ prevBuildResults' # prevBuildResults
            => /\ reportFixedBuild
               /\ \E k \in DOMAIN builds : decides(k) /\ builds[k].stage = "finished"]_vars

C19_Witness ==
    /\ reportFixedBuild
    /\ \E j, k \in DOMAIN builds :
          /\ builds[j].stage = "finished" /\ builds[j].stored
          /\ builds[k].stage = "new" /\ builds[k].builder = builds[j].builder
          /\ j < k /\ builds[k].pc = "done" /\ builds[k].posts >= 1
          /\ prevBuildResults[builds[j].builder] = builds[j].results

\* C20: with reportOnlyFailures and reportFixedBuild and the events handled
\* one at a time, a SUCCESS build is reported only if the finished event
\* delivered just before it for its builder had FAILURE or EXCEPTION.
C20_FixOncePerStreak ==
    (reportOnlyFailures /\ reportFixedBuild) =>
        \A k \in DOMAIN builds :
            (decided(k) /\ builds[k].results = SUCCESS /\ builds[k].doSend)
            => \E j \in 1..(k - 1) :
                  /\ builds[j].stage = "finished"
                  /\ builds[j].builder = builds[k].builder
                  /\ builds[j].results \in {FAILURE, EXCEPTION}
                  /\ \A m \in (j + 1)..(k - 1) :
                        ~(builds[m].stage = "finished" /\ builds[m].builder = builds[k].builder)

====
